---- MODULE Spec2Model ----
(***************************************************************************)
(* A model of black_scholes.py: the closed-form pricing function           *)
(* black_scholes, the historical-volatility estimator                     *)
(* get_historical_volatility and the command-line flow main.              *)
(*                                                                         *)
(* Floats are fixed-point numbers: the integer v stands for v / Unit.      *)
(* Every product and quotient is rounded to the nearest multiple of        *)
(* 1/Unit, as every float operation is rounded to the nearest double.      *)
(* A float that may be nan or infinite is a record [t, v] with t one of    *)
(* "fin", "nan", "ninf", "pinf".                                           *)
(***************************************************************************)
EXTENDS Integers, Sequences, FiniteSets

VARIABLES
    bs,       \* the frame of black_scholes: its arguments, locals and position
    vol,      \* the frame of get_historical_volatility
    mn,       \* the frame of main: its locals and position
    out,      \* what main has printed, one entry per print of interest
    results   \* what the direct caller of black_scholes got, per option type

vars == <<bs, vol, mn, out, results>>

(***************************************************************************)
(* Floats                                                                  *)
(***************************************************************************)
Unit == 10000

Fin(v) == [t |-> "fin", v |-> v]
NaN == [t |-> "nan", v |-> 0]
NegInf == [t |-> "ninf", v |-> 0]
PosInf == [t |-> "pinf", v |-> 0]
None == [t |-> "none", v |-> 0]

IsFin(x) == x.t = "fin"
IsNaN(x) == x.t = "nan"

Abs(n) == IF n < 0 THEN -n ELSE n
Sgn(n) == IF n < 0 THEN -1 ELSE 1

\* n / d rounded to the nearest integer, ties away from zero (d > 0).
Rnd(n, d) == Sgn(n) * ((Abs(n) + d \div 2) \div d)

Min(m, n) == IF m <= n THEN m ELSE n
Max(m, n) == IF m <= n THEN n ELSE m

\* a * b of two floats: |a b| / Unit rounded to the nearest integer, with the
\* larger factor split into its whole and fractional part to keep the
\* intermediate products small.
Mul(a, b) ==
    LET lo == Min(Abs(a), Abs(b))
        hi == Max(Abs(a), Abs(b))
    IN Sgn(a) * Sgn(b) * (lo * (hi \div Unit) + Rnd(lo * (hi % Unit), Unit))

\* a / b of two floats, b # 0: |a| Unit / |b| rounded to the nearest integer,
\* the whole part and the fractional part computed apart.
Div(a, b) ==
    Sgn(a) * Sgn(b)
    * ((Abs(a) \div Abs(b)) * Unit + Rnd((Abs(a) % Abs(b)) * Unit, Abs(b)))

\* x <= 0 and x > 0 of a float: every comparison with nan is False.
Le0(x) == (x.t = "fin" /\ x.v <= 0) \/ x.t = "ninf"
Gt0(x) == (x.t = "fin" /\ x.v > 0) \/ x.t = "pinf"

FNeg(x) ==
    CASE x.t = "fin" -> Fin(-x.v)
      [] x.t = "ninf" -> PosInf
      [] x.t = "pinf" -> NegInf
      [] OTHER -> x

\* x + y where y is finite or nan.
FAdd(x, y) ==
    CASE IsNaN(x) \/ IsNaN(y) -> NaN
      [] x.t = "fin" -> Fin(x.v + y.v)
      [] OTHER -> x

FSub(x, y) == FAdd(x, FNeg(y))

\* x / y of numpy floats, y finite or nan: a zero divisor gives an
\* infinity or nan (with a warning), never an exception.
FDiv(x, y) ==
    CASE IsNaN(x) \/ IsNaN(y) -> NaN
      [] y.v = 0 -> (CASE x.t = "fin" /\ x.v = 0 -> NaN
                       [] Gt0(x) -> PosInf
                       [] OTHER -> NegInf)
      [] x.t = "fin" -> Fin(Div(x.v, y.v))
      [] OTHER -> IF y.v > 0 THEN x ELSE FNeg(x)

\* np.sqrt(x), x >= 0: the integer square root of x * Unit, rounded down,
\* found by bisection.
RECURSIVE SqrtBisect(_, _, _)
SqrtBisect(lo, hi, n) ==
    IF hi - lo <= 1 THEN lo
    ELSE LET mid == (lo + hi) \div 2
         IN IF mid * mid <= n THEN SqrtBisect(mid, hi, n)
            ELSE SqrtBisect(lo, mid, n)

RECURSIVE Sqrt(_)
Sqrt(x) ==
    IF x > 20 * Unit THEN 10 * Sqrt(x \div 100) ELSE SqrtBisect(0, 46341, x * Unit)

\* np.exp(x) by its Taylor series (|x| is well below 1 where it is used).
RECURSIVE ExpTerms(_, _, _)
ExpTerms(x, term, k) ==
    IF k > 12 \/ term = 0 THEN 0
    ELSE term + ExpTerms(x, Rnd(term * x, Unit * k), k + 1)

Exp(x) == ExpTerms(x, Unit, 1)

\* np.log(q), q > 0: halve or double q into [Unit/2, 2 Unit], then
\* ln q = 2 atanh((q - 1) / (q + 1)).
Ln2 == 6931

RECURSIVE AtanhTerms(_, _, _)
AtanhTerms(y2, pow, k) ==
    IF k > 25 \/ pow = 0 THEN 0
    ELSE Rnd(pow, k) + AtanhTerms(y2, Mul(pow, y2), k + 2)

RECURSIVE Log(_)
Log(q) ==
    IF q > 2 * Unit THEN Ln2 + Log(Rnd(q, 2))
    ELSE IF 2 * q < Unit THEN Log(2 * q) - Ln2
    ELSE LET y == Div(q - Unit, q + Unit)
         IN 2 * AtanhTerms(Mul(y, y), y, 1)

\* np.log of a float: nan below zero, -inf at zero (each with a warning).
FLog(x) ==
    CASE x.t = "fin" -> (IF x.v < 0 THEN NaN ELSE IF x.v = 0 THEN NegInf
                         ELSE Fin(Log(x.v)))
      [] x.t = "pinf" -> PosInf
      [] OTHER -> NaN

\* scipy.stats.norm.cdf: the standard normal distribution function,
\* tabulated at 0, 0.05, ..., 4 and interpolated; 1 from 4 on. As in the
\* library, the value at -x is one minus the value at x.
CdfStep == 500
CdfTable ==
    << 5000, 5199, 5398, 5596, 5793, 5987, 6179, 6368, 6554,
       6736, 6915, 7088, 7257, 7422, 7580, 7734, 7881, 8023,
       8159, 8289, 8413, 8531, 8643, 8749, 8849, 8944, 9032,
       9115, 9192, 9265, 9332, 9394, 9452, 9505, 9554, 9599,
       9641, 9678, 9713, 9744, 9772, 9798, 9821, 9842, 9861,
       9878, 9893, 9906, 9918, 9929, 9938, 9946, 9953, 9960,
       9965, 9970, 9974, 9978, 9981, 9984, 9987, 9989, 9990,
       9992, 9993, 9994, 9995, 9996, 9997, 9997, 9998, 9998,
       9998, 9999, 9999, 9999, 9999, 9999, 10000, 10000, 10000 >>

CdfPos(x) ==
    LET i == x \div CdfStep
    IN IF i + 2 > Len(CdfTable) THEN Unit
       ELSE CdfTable[i + 1]
            + Rnd((x - i * CdfStep) * (CdfTable[i + 2] - CdfTable[i + 1]), CdfStep)

Cdf(x) == IF x >= 0 THEN CdfPos(x) ELSE Unit - CdfPos(-x)

norm_cdf(x) ==
    CASE x.t = "fin" -> Fin(Cdf(x.v))
      [] x.t = "ninf" -> Fin(0)
      [] x.t = "pinf" -> Fin(Unit)
      [] OTHER -> NaN

(***************************************************************************)
(* Strings: a string is the sequence of its characters.                    *)
(***************************************************************************)
UpperCase == << "A", "B", "C", "D", "E", "F", "G", "H", "I", "J", "K", "L", "M",
                "N", "O", "P", "Q", "R", "S", "T", "U", "V", "W", "X", "Y", "Z" >>
LowerCase == << "a", "b", "c", "d", "e", "f", "g", "h", "i", "j", "k", "l", "m",
                "n", "o", "p", "q", "r", "s", "t", "u", "v", "w", "x", "y", "z" >>

LowerChar(c) ==
    IF \E i \in DOMAIN UpperCase : UpperCase[i] = c
    THEN LowerCase[CHOOSE i \in DOMAIN UpperCase : UpperCase[i] = c]
    ELSE c

\* str.lower()
lower(s) == [i \in DOMAIN s |-> LowerChar(s[i])]

RECURSIVE LStrip(_)
LStrip(s) == IF s # <<>> /\ Head(s) = " " THEN LStrip(Tail(s)) ELSE s

RECURSIVE RStrip(_)
RStrip(s) ==
    IF s # <<>> /\ s[Len(s)] = " " THEN RStrip(SubSeq(s, 1, Len(s) - 1)) ELSE s

\* str.strip()
strip(s) == RStrip(LStrip(s))

Digits == << "0", "1", "2", "3", "4", "5", "6", "7", "8", "9" >>

DigitValue(c) == (CHOOSE i \in DOMAIN Digits : Digits[i] = c) - 1

\* int(s) of a string of decimal digits; any other string raises ValueError.
IsInt(s) == s # <<>> /\ \A i \in DOMAIN s : \E j \in DOMAIN Digits : Digits[j] = s[i]

RECURSIVE int(_)
int(s) ==
    IF s = <<>> THEN 0
    ELSE 10 * int(SubSeq(s, 1, Len(s) - 1)) + DigitValue(s[Len(s)])

call == << "c", "a", "l", "l" >>
put == << "p", "u", "t" >>

(***************************************************************************)
(* black_scholes(S, K, T, r, sigma, option_type)                           *)
(***************************************************************************)
\* max(0.0, x)
Max0(x) == IF x > 0 THEN x ELSE 0

\* A variant of TypeInvalid: the check of the option type left out.
TypeInvalidSkipped(option_type) == FALSE

\* option_type not in ['call', 'put']
TypeInvalid(option_type) == option_type \notin {call, put}

\* A variant of Degenerate: sigma <= 0 and T <= 0.
DegenerateBoth(sigma, T) == Le0(sigma) /\ T <= 0

\* sigma <= 0 or T <= 0
Degenerate(sigma, T) == Le0(sigma) \/ T <= 0

\* max(0.0, S - K) if option_type == 'call' else max(0.0, K - S)
Intrinsic(S, K, option_type) ==
    IF option_type = call THEN Max0(S - K) ELSE Max0(K - S)

\* (r + 0.5 * sigma**2) * T
Drift(r, sigma, T) ==
    IF IsNaN(sigma) THEN NaN
    ELSE Fin(Mul(r + Mul(Unit \div 2, Mul(sigma.v, sigma.v)), T))

\* sigma * np.sqrt(T)
Denominator(sigma, T) ==
    IF IsNaN(sigma) THEN NaN ELSE Fin(Mul(sigma.v, Sqrt(T)))

\* d1 = (np.log(S / K) + (r + 0.5 * sigma**2) * T) / (sigma * np.sqrt(T))
D1(S, K, T, r, sigma) ==
    FDiv(FAdd(FLog(FDiv(Fin(S), Fin(K))), Drift(r, sigma, T)), Denominator(sigma, T))

\* d2 = d1 - sigma * np.sqrt(T)
D2(d1, sigma, T) == FSub(d1, Denominator(sigma, T))

\* a * x, a finite and x finite or nan
Scale(a, x) == IF IsNaN(x) THEN NaN ELSE Fin(Mul(a, x.v))

\* K * np.exp(-r * T)
Discounted(K, r, T) == Mul(K, Exp(Mul(-r, T)))

\* A variant of CallPrice: the strike not discounted.
CallPriceUndiscounted(S, K, T, r, d1, d2) ==
    FSub(Scale(S, norm_cdf(d1)), Scale(K, norm_cdf(d2)))

\* S * norm.cdf(d1) - K * np.exp(-r * T) * norm.cdf(d2)
CallPrice(S, K, T, r, d1, d2) ==
    FSub(Scale(S, norm_cdf(d1)), Scale(Discounted(K, r, T), norm_cdf(d2)))

\* A variant of PutPrice: d1 and d2 exchanged.
PutPriceSwapped(S, K, T, r, d1, d2) ==
    FSub(Scale(Discounted(K, r, T), norm_cdf(FNeg(d1))), Scale(S, norm_cdf(FNeg(d2))))

\* K * np.exp(-r * T) * norm.cdf(-d2) - S * norm.cdf(-d1)
PutPrice(S, K, T, r, d1, d2) ==
    FSub(Scale(Discounted(K, r, T), norm_cdf(FNeg(d2))), Scale(S, norm_cdf(FNeg(d1))))

BSIdle ==
    [pc |-> "idle", caller |-> "none", S |-> 0, K |-> 0, T |-> 0, r |-> 0,
     sigma |-> None, option_type |-> <<>>, given |-> <<>>, ratio |-> None,
     den |-> None,
     d1 |-> None, d2 |-> None, price |-> None, exc |-> "none"]

\* The frame at the call black_scholes(S, K, T, r, sigma, option_type);
\* given keeps the option_type passed, which line 23 overwrites.
BSEntry(caller, S, K, T, r, sigma, option_type) ==
    [BSIdle EXCEPT !.pc = "lower", !.caller = caller, !.S = S, !.K = K, !.T = T,
                   !.r = r, !.sigma = sigma, !.option_type = option_type,
                   !.given = option_type]

\* option_type = option_type.lower()
BSLower ==
    /\ bs.pc = "lower"
    /\ bs' = [bs EXCEPT !.option_type = lower(bs.option_type), !.pc = "check_type"]
    /\ UNCHANGED <<vol, mn, out, results>>

\* if option_type not in ['call', 'put']: raise ValueError(...)
BSCheckType ==
    /\ bs.pc = "check_type"
    /\ bs' = IF TypeInvalid(bs.option_type)
             THEN [bs EXCEPT !.pc = "raised", !.exc = "ValueError"]
             ELSE [bs EXCEPT !.pc = "degenerate"]
    /\ UNCHANGED <<vol, mn, out, results>>

\* if sigma <= 0 or T <= 0: return the intrinsic value
BSDegenerate ==
    /\ bs.pc = "degenerate"
    /\ bs' = IF Degenerate(bs.sigma, bs.T)
             THEN [bs EXCEPT !.pc = "returned",
                             !.price = Fin(Intrinsic(bs.S, bs.K, bs.option_type))]
             ELSE [bs EXCEPT !.pc = "d1"]
    /\ UNCHANGED <<vol, mn, out, results>>

\* d1 = ...: S / K of Python floats raises ZeroDivisionError when K is 0;
\* of numpy floats (main's) it is an infinity or nan.
BSD1 ==
    /\ bs.pc = "d1"
    /\ bs' = IF bs.K = 0 /\ bs.caller # "main"
             THEN [bs EXCEPT !.pc = "raised", !.exc = "ZeroDivisionError"]
             ELSE [bs EXCEPT !.pc = "d2",
                             !.ratio = FDiv(Fin(bs.S), Fin(bs.K)),
                             !.den = Denominator(bs.sigma, bs.T),
                             !.d1 = D1(bs.S, bs.K, bs.T, bs.r, bs.sigma)]
    /\ UNCHANGED <<vol, mn, out, results>>

\* d2 = d1 - sigma * np.sqrt(T)
BSD2 ==
    /\ bs.pc = "d2"
    /\ bs' = [bs EXCEPT !.pc = "price", !.d2 = D2(bs.d1, bs.sigma, bs.T)]
    /\ UNCHANGED <<vol, mn, out, results>>

\* if option_type == 'call': price = ... else: price = ...; return price
BSPrice ==
    /\ bs.pc = "price"
    /\ bs' = [bs EXCEPT
                !.pc = "returned",
                !.price = IF bs.option_type = call
                          THEN CallPrice(bs.S, bs.K, bs.T, bs.r, bs.d1, bs.d2)
                          ELSE PutPrice(bs.S, bs.K, bs.T, bs.r, bs.d1, bs.d2)]
    /\ UNCHANGED <<vol, mn, out, results>>

(***************************************************************************)
(* get_historical_volatility(ticker, period)                               *)
(***************************************************************************)
MaxLen == 4
TradingDays == 252

\* The 'Adj Close' column yf.download may return: up to MaxLen rows, each a
\* positive price or missing (nan).
AdjClose == {Fin(10 * Unit), Fin(10 * Unit + Unit \div 2), NaN}
Downloads == UNION {[1..n -> AdjClose] : n \in 0..MaxLen}

\* np.log(data['Adj Close'] / data['Adj Close'].shift(1)): the first row has
\* no previous row, so its return is nan.
Returns(data) ==
    [i \in DOMAIN data |->
        IF i = 1 THEN NaN ELSE FLog(FDiv(data[i], data[i - 1]))]

RECURSIVE Sum(_)
Sum(xs) == IF xs = <<>> THEN 0 ELSE Head(xs) + Sum(Tail(xs))

\* A variant of Std: nan values are not skipped (numpy's std), so one nan
\* return makes the result nan.
StdKeepNaN(returns) ==
    LET n == Len(returns)
        mean == Rnd(Sum([i \in 1..n |-> returns[i].v]), n)
        squares == [i \in 1..n |-> Mul(returns[i].v - mean, returns[i].v - mean)]
    IN IF n < 2 \/ \E i \in 1..n : ~IsFin(returns[i]) THEN NaN
       ELSE Fin(Sqrt(Rnd(Sum(squares), n - 1)))

\* Series.std(): nan values are skipped; the sum of squared deviations from
\* the mean is divided by n - 1; nan when fewer than 2 values are left.
Std(returns) ==
    LET valid == SelectSeq(returns, IsFin)
        n == Len(valid)
        mean == Rnd(Sum([i \in 1..n |-> valid[i].v]), n)
        squares == [i \in 1..n |-> Mul(valid[i].v - mean, valid[i].v - mean)]
    IN IF n < 2 THEN NaN ELSE Fin(Sqrt(Rnd(Sum(squares), n - 1)))

\* std_dev * np.sqrt(252)
Annualize(std_dev) == Scale(Sqrt(TradingDays * Unit), std_dev)

VolIdle ==
    [pc |-> "idle", caller |-> "none", data |-> <<>>, Returns |-> <<>>,
     std_dev |-> None, volatility |-> None, exc |-> "none"]

VolEntry(caller) == [VolIdle EXCEPT !.pc = "download", !.caller = caller]

\* data = yf.download(ticker, period=period, progress=False)
VolDownload ==
    /\ vol.pc = "download"
    /\ \E data \in Downloads : vol' = [vol EXCEPT !.pc = "check_empty", !.data = data]
    /\ UNCHANGED <<bs, mn, out, results>>

\* if data.empty: raise ValueError(...)
VolCheckEmpty ==
    /\ vol.pc = "check_empty"
    /\ vol' = IF vol.data = <<>>
              THEN [vol EXCEPT !.pc = "raised", !.exc = "ValueError"]
              ELSE [vol EXCEPT !.pc = "returns"]
    /\ UNCHANGED <<bs, mn, out, results>>

\* data['Returns'] = np.log(...)
VolReturns ==
    /\ vol.pc = "returns"
    /\ vol' = [vol EXCEPT !.pc = "std", !.Returns = Returns(vol.data)]
    /\ UNCHANGED <<bs, mn, out, results>>

\* std_dev = data['Returns'].std()
VolStd ==
    /\ vol.pc = "std"
    /\ vol' = [vol EXCEPT !.pc = "annualize", !.std_dev = Std(vol.Returns)]
    /\ UNCHANGED <<bs, mn, out, results>>

\* volatility = std_dev * np.sqrt(252); return volatility
VolReturn ==
    /\ vol.pc = "annualize"
    /\ vol' = [vol EXCEPT !.pc = "returned", !.volatility = Annualize(vol.std_dev)]
    /\ UNCHANGED <<bs, mn, out, results>>

\* A direct caller of get_historical_volatility.
EstimatorCall ==
    /\ bs.pc = "idle" /\ vol.pc = "idle" /\ mn.pc = "idle"
    /\ vol' = VolEntry("caller")
    /\ UNCHANGED <<bs, mn, out, results>>

(***************************************************************************)
(* A direct caller of black_scholes: one call on arguments of its choice,  *)
(* then the same arguments priced as the other option type.                *)
(***************************************************************************)
Spots == {-5 * Unit, 0, 5 * Unit, 10 * Unit, 10 * Unit + Unit \div 2, 15 * Unit}
Strikes == {-5 * Unit, 0, 5 * Unit, 10 * Unit, 10 * Unit + Unit \div 2}
Expiries == {-(Unit \div 2), 0, Unit \div 4, Unit, 2 * Unit}
Rates == {-(Unit \div 20), 0, Unit \div 20}
Sigmas ==
    {Fin(-(Unit \div 5)), Fin(0), Fin(Unit \div 10), Fin(Unit \div 5), Fin(Unit \div 2)}
OptionTypes ==
    {call, put, << "C", "a", "l", "l" >>, << "P", "U", "T" >>,
     << "s", "t", "r", "a", "d", "d", "l", "e" >>}

TypeName(option_type) == IF option_type = call THEN "call" ELSE "put"

NoResults == [t \in {"call", "put"} |-> None]

CallerCall ==
    /\ bs.pc = "idle" /\ vol.pc = "idle" /\ mn.pc = "idle"
    /\ \E S \in Spots, K \in Strikes, T \in Expiries, r \in Rates,
          sigma \in Sigmas, option_type \in OptionTypes :
          bs' = BSEntry("caller", S, K, T, r, sigma, option_type)
    /\ UNCHANGED <<vol, mn, out, results>>

CallerCollect ==
    /\ bs.caller = "caller"
    /\ bs.pc = "returned"
    /\ results' = [results EXCEPT ![TypeName(bs.option_type)] = bs.price]
    /\ bs' = [bs EXCEPT !.pc = "collected"]
    /\ UNCHANGED <<vol, mn, out>>

CallerCallAgain ==
    /\ bs.caller = "caller"
    /\ bs.pc = "collected"
    /\ \E option_type \in {call, put} :
          /\ results[TypeName(option_type)] = None
          /\ bs' = BSEntry("caller", bs.S, bs.K, bs.T, bs.r, bs.sigma, option_type)
    /\ UNCHANGED <<vol, mn, out, results>>

(***************************************************************************)
(* get_risk_free_rate() and main()                                         *)
(***************************************************************************)
MaxExpirations == 2
DaysPerYear == 365

\* return 0.045
get_risk_free_rate == (45 * Unit) \div 1000

\* What the market-data provider may return and the user may type.
Closes == {10 * Unit}
Chains ==
    {[days |-> 0, calls |-> <<5 * Unit, 10 * Unit>>, puts |-> <<10 * Unit>>],
     [days |-> 365, calls |-> <<5 * Unit, 10 * Unit>>, puts |-> <<10 * Unit>>],
     [days |-> 365, calls |-> <<>>, puts |-> <<10 * Unit>>]}
OptionData == UNION {[1..n -> Chains] : n \in 0..MaxExpirations}
\* The text typed at a number prompt: a digit, or something int() rejects.
Typed == {<< "x" >>} \cup {<< Digits[n + 1] >> : n \in 0..MaxExpirations + 1}
TypedTypes ==
    {<< " ", "C", "a", "l", "l" >>, << "p", "u", "t", " " >>,
     << "c", "a", "l", "l", "s" >>}

\* seq[i] of a Python list or numpy array: a negative index counts from the
\* end; anything else outside the sequence raises IndexError.
InRange(seq, i) == -Len(seq) <= i /\ i < Len(seq)
Item(seq, i) == IF i >= 0 THEN seq[i + 1] ELSE seq[Len(seq) + i + 1]

\* T = (expiration - today).days / 365.0
YearsTo(days) == Rnd(days * Unit, DaysPerYear)

MainIdle ==
    [pc |-> "idle", S |-> 0, option_data |-> <<>>, expiration |-> 0, T |-> 0,
     option_type_input |-> <<>>, strike_prices |-> <<>>, K |-> 0, r |-> 0,
     sigma |-> None, option_price |-> None, exc |-> "none"]

\* An exception raised inside the try block: except Exception as e:
\* print(f"Error: {e}"), and main ends.
Fail(exc) ==
    /\ mn' = [mn EXCEPT !.pc = "done", !.exc = exc]
    /\ out' = Append(out, "Error")

\* print(banner); ticker = input(...).strip().upper()
MainStart ==
    /\ bs.pc = "idle" /\ vol.pc = "idle" /\ mn.pc = "idle"
    /\ mn' = [mn EXCEPT !.pc = "spot"]
    /\ out' = Append(out, "banner")
    /\ UNCHANGED <<bs, vol, results>>

\* stock_data = stock.history(period='1d'); if stock_data.empty: raise ...
\* S = stock_data['Close'][0]; print S
MainSpot ==
    /\ mn.pc = "spot"
    /\ \/ Fail("ValueError")
       \/ \E S \in Closes :
             /\ mn' = [mn EXCEPT !.pc = "chain", !.S = S]
             /\ out' = Append(out, "S")
    /\ UNCHANGED <<bs, vol, results>>

\* option_data = get_option_data(ticker), which raises ValueError when the
\* ticker has no expirations; print the expiration dates
MainChain ==
    /\ mn.pc = "chain"
    /\ \E option_data \in OptionData :
          IF option_data = <<>>
          THEN Fail("ValueError")
          ELSE /\ mn' = [mn EXCEPT !.pc = "select_expiration",
                                   !.option_data = option_data]
               /\ out' = Append(out, "expirations")
    /\ UNCHANGED <<bs, vol, results>>

\* exp_index = int(input(...)) - 1; expiration_date = expirations[exp_index]
MainSelectExpiration ==
    /\ mn.pc = "select_expiration"
    /\ \E typed \in Typed :
          IF ~IsInt(typed)
          THEN Fail("ValueError")
          ELSE IF ~InRange(mn.option_data, int(typed) - 1)
          THEN Fail("IndexError")
          ELSE /\ mn' = [mn EXCEPT !.pc = "time", !.expiration = int(typed) - 1]
               /\ out' = Append(out, "expiration")
    /\ UNCHANGED <<bs, vol, results>>

\* A variant of MainTime: the check of T left out.
MainTimeUnchecked ==
    /\ mn.pc = "time"
    /\ mn' = [mn EXCEPT !.pc = "type",
                        !.T = YearsTo(Item(mn.option_data, mn.expiration).days)]
    /\ UNCHANGED <<bs, vol, out, results>>

\* T = (expiration - today).days / 365.0; if T <= 0: raise ValueError(...)
MainTime ==
    /\ mn.pc = "time"
    /\ LET T == YearsTo(Item(mn.option_data, mn.expiration).days)
       IN IF T <= 0
          THEN Fail("ValueError")
          ELSE /\ mn' = [mn EXCEPT !.pc = "type", !.T = T]
               /\ out' = out
    /\ UNCHANGED <<bs, vol, results>>

\* option_type_input = input(...).strip().lower()
\* if option_type_input not in ['call', 'put']: raise ValueError(...)
\* strike_prices = option_data[expiration_date][option_type_input + 's']; print them
MainType ==
    /\ mn.pc = "type"
    /\ \E typed \in TypedTypes :
          LET option_type_input == lower(strip(typed))
              chain == Item(mn.option_data, mn.expiration)
          IN IF TypeInvalid(option_type_input)
             THEN Fail("ValueError")
             ELSE /\ mn' = [mn EXCEPT
                              !.pc = "select_strike",
                              !.option_type_input = option_type_input,
                              !.strike_prices = IF option_type_input = call
                                                THEN chain.calls ELSE chain.puts]
                  /\ out' = Append(out, "strikes")
    /\ UNCHANGED <<bs, vol, results>>

\* strike_index = int(input(...)) - 1; K = strike_prices[strike_index]; print K
MainSelectStrike ==
    /\ mn.pc = "select_strike"
    /\ \E typed \in Typed :
          IF ~IsInt(typed)
          THEN Fail("ValueError")
          ELSE IF ~InRange(mn.strike_prices, int(typed) - 1)
          THEN Fail("IndexError")
          ELSE /\ mn' = [mn EXCEPT !.pc = "rate",
                                   !.K = Item(mn.strike_prices, int(typed) - 1)]
               /\ out' = Append(out, "K")
    /\ UNCHANGED <<bs, vol, results>>

\* r = get_risk_free_rate(); print r
MainRate ==
    /\ mn.pc = "rate"
    /\ mn' = [mn EXCEPT !.pc = "volatility", !.r = get_risk_free_rate]
    /\ out' = Append(out, "r")
    /\ UNCHANGED <<bs, vol, results>>

\* sigma = get_historical_volatility(ticker): the call
MainCallVolatility ==
    /\ mn.pc = "volatility"
    /\ mn' = [mn EXCEPT !.pc = "in_volatility"]
    /\ vol' = VolEntry("main")
    /\ UNCHANGED <<bs, out, results>>

\* sigma = get_historical_volatility(ticker): the return; print sigma
MainVolatilityDone ==
    /\ mn.pc = "in_volatility"
    /\ vol.pc \in {"returned", "raised"}
    /\ IF vol.pc = "raised"
       THEN Fail(vol.exc)
       ELSE /\ mn' = [mn EXCEPT !.pc = "price", !.sigma = vol.volatility]
            /\ out' = Append(out, "sigma")
    /\ vol' = [vol EXCEPT !.pc = "collected"]
    /\ UNCHANGED <<bs, results>>

\* option_price = black_scholes(S, K, T, r, sigma, option_type=option_type_input):
\* the call
MainCallBlackScholes ==
    /\ mn.pc = "price"
    /\ mn' = [mn EXCEPT !.pc = "in_black_scholes"]
    /\ bs' = BSEntry("main", mn.S, mn.K, mn.T, mn.r, mn.sigma, mn.option_type_input)
    /\ UNCHANGED <<vol, out, results>>

\* ... the return; print the option price
MainBlackScholesDone ==
    /\ mn.pc = "in_black_scholes"
    /\ bs.pc \in {"returned", "raised"}
    /\ IF bs.pc = "raised"
       THEN Fail(bs.exc)
       ELSE /\ mn' = [mn EXCEPT !.pc = "done", !.option_price = bs.price]
            /\ out' = Append(out, "price")
    /\ bs' = [bs EXCEPT !.pc = "collected"]
    /\ UNCHANGED <<vol, results>>

Init ==
    /\ bs = BSIdle
    /\ vol = VolIdle
    /\ mn = MainIdle
    /\ out = <<>>
    /\ results = NoResults

Next ==
    \/ CallerCall
    \/ BSLower
    \/ BSCheckType
    \/ BSDegenerate
    \/ BSD1
    \/ BSD2
    \/ BSPrice
    \/ CallerCollect
    \/ CallerCallAgain
    \/ EstimatorCall
    \/ VolDownload
    \/ VolCheckEmpty
    \/ VolReturns
    \/ VolStd
    \/ VolReturn
    \/ MainStart
    \/ MainSpot
    \/ MainChain
    \/ MainSelectExpiration
    \/ MainTime
    \/ MainType
    \/ MainSelectStrike
    \/ MainRate
    \/ MainCallVolatility
    \/ MainVolatilityDone
    \/ MainCallBlackScholes
    \/ MainBlackScholesDone

Spec == Init /\ [][Next]_vars

(***************************************************************************)
(* The properties                                                          *)
(***************************************************************************)
\* s is the word w (in lower case) up to the case of its letters.
IsWord(s, w) ==
    /\ Len(s) = Len(w)
    /\ \A i \in 1..Len(w) :
          \/ s[i] = w[i]
          \/ \E j \in DOMAIN LowerCase : LowerCase[j] = w[i] /\ UpperCase[j] = s[i]

GivenCall == IsWord(bs.given, call)
GivenPut == IsWord(bs.given, put)

\* black_scholes has returned a price, or raised.
BSReturned == bs.pc \in {"returned", "collected"} /\ bs.exc = "none"
BSRaised == bs.pc \in {"raised", "collected"} /\ bs.exc # "none"

SigmaLe0 == bs.sigma.t = "fin" /\ bs.sigma.v <= 0
SigmaGt0 == bs.sigma.t = "fin" /\ bs.sigma.v > 0

\* max(0, S - K) for a call, max(0, K - S) for a put.
IntrinsicValue ==
    IF GivenCall THEN Max(0, bs.S - bs.K) ELSE Max(0, bs.K - bs.S)

\* K exp(-r T)
PresentValue == Mul(bs.K, Exp(Mul(-bs.r, bs.T)))

\* max(0, S - K exp(-r T)) for a call, max(0, K exp(-r T) - S) for a put.
DiscountedIntrinsicValue ==
    IF GivenCall THEN Max(0, bs.S - PresentValue) ELSE Max(0, PresentValue - bs.S)

\* The rounding error allowed on a price: the arithmetic rounds to 1 / Unit.
Tol == Unit \div 200

\* C1: whenever sigma <= 0 or T <= 0, black_scholes returns exactly the
\* intrinsic value, max(0, S - K) for a call and max(0, K - S) for a put,
\* whatever r, sigma and T are.
C1_DegenerateReturnsIntrinsic ==
    (BSReturned /\ (SigmaLe0 \/ bs.T <= 0)) => bs.price = Fin(IntrinsicValue)

\* C1's case: T <= 0 alone (sigma > 0, r # 0), an in-the-money call.
C1_Witness ==
    /\ BSReturned /\ SigmaGt0 /\ bs.T <= 0 /\ bs.r # 0
    /\ GivenCall /\ bs.S > bs.K /\ bs.price = Fin(bs.S - bs.K)

\* C2: black_scholes raises ValueError and returns no price whenever
\* option_type is neither 'call' nor 'put' up to case, whatever the other
\* arguments: it never gets past the check of the type.
C2_InvalidTypeRaises ==
    (bs.pc # "idle" /\ ~GivenCall /\ ~GivenPut) =>
        /\ bs.pc \in {"lower", "check_type", "raised"}
        /\ bs.price = None
        /\ bs.pc = "raised" => bs.exc = "ValueError"

\* C2's case: an invalid type on degenerate arguments has raised.
C2_Witness ==
    /\ bs.pc = "raised" /\ bs.exc = "ValueError"
    /\ ~GivenCall /\ ~GivenPut
    /\ (SigmaLe0 \/ bs.T <= 0)

\* The log returns of a price series that can be computed: both prices present.
ValidReturns(data) ==
    Cardinality({i \in 2..Len(data) : IsFin(data[i]) /\ IsFin(data[i - 1])})

VolEnded == vol.pc \in {"returned", "raised", "collected"}

\* C3: the estimator returns a value only when at least 2 valid log returns
\* remain; with fewer (an empty, all-missing or single-element series among
\* them) it fails and returns nothing.
C3_FailsBelowTwoReturns ==
    (VolEnded /\ ValidReturns(vol.data) < 2) =>
        vol.exc # "none" /\ vol.volatility = None

\* C4: black_scholes raises, and never returns a price, whenever S <= 0 or
\* K <= 0, the degenerate branch included.
C4_NonPositiveRejected ==
    (bs.pc # "idle" /\ (bs.S <= 0 \/ bs.K <= 0)) =>
        ~BSReturned /\ bs.price = None

ValidInput == bs.S > 0 /\ bs.K > 0 /\ bs.sigma.t = "fin" /\ bs.sigma.v >= 0

ConstantSeries(data) ==
    /\ data # <<>>
    /\ \A i \in DOMAIN data : IsFin(data[i]) /\ data[i].v > 0 /\ data[i] = data[1]

BothPriced ==
    /\ results["call"] # None /\ results["put"] # None
    /\ bs.S > 0 /\ bs.K > 0 /\ bs.T > 0 /\ SigmaGt0

\* (Call - Put) - (S - K exp(-r T))
ParityError ==
    (results["call"].v - results["put"].v) - (bs.S - PresentValue)

C9_D1Guarded ==
    /\ bs.pc = "d1" => SigmaGt0 /\ bs.T > 0
    /\ bs.den # None => bs.den.t = "fin" /\ bs.den.v > 0
    /\ (bs.ratio # None /\ bs.S > 0 /\ bs.K > 0) =>
          bs.ratio.t = "fin" /\ bs.ratio.v > 0

Steps == << "banner", "S", "expirations", "expiration", "strikes", "K", "r", "sigma" >>

\* C10: main calls black_scholes, and prints a price, only after the spot,
\* the chain, the expiration (T > 0), the option type, the strike, the rate
\* and the volatility were obtained in this order; a failing step ends the
\* run with exactly one Error message and no price; main never calls
\* black_scholes with T <= 0 or an invalid option type.
C10_MainOrder ==
    /\ (bs.caller = "main" /\ bs.pc # "idle") =>
          /\ bs.T > 0 /\ bs.given \in {call, put}
          /\ out \in {Steps, Append(Steps, "price")}
          /\ mn.sigma # None /\ mn.r = get_risk_free_rate
    /\ (\E i \in DOMAIN out : out[i] = "price") =>
          out = Append(Steps, "price") /\ mn.pc = "done" /\ bs.pc = "collected"
    /\ (\E i \in DOMAIN out : out[i] = "Error") =>
          /\ mn.pc = "done" /\ mn.exc # "none"
          /\ out[Len(out)] = "Error"
          /\ \A i \in 1..Len(out) - 1 : out[i] \notin {"Error", "price"}
          /\ SubSeq(out, 1, Len(out) - 1) = SubSeq(Steps, 1, Len(out) - 1)
    /\ mn.pc = "done" => out[Len(out)] \in {"Error", "price"}

\* C10's case: a run of main that printed a price.
C10_Witness ==
    mn.pc = "done" /\ out = Append(Steps, "price") /\ IsFin(mn.option_price)

====
